---- MODULE Spec2Model ----
(***************************************************************************)
(* Multi-actuator motion sequencing engine of sayedtaban/stepmotor.        *)
(*                                                                         *)
(* The repository holds the same engine in three generations, selected by  *)
(* the variable "variant":                                                 *)
(*   "main" : src/main.py      (RPi.GPIO, one shared stop_event)           *)
(*   "v22"  : src/main2.2.py   (lgpio, MotorThread/ReturnThread classes)   *)
(*   "add"  : src/main_add.py  (lgpio, one-time GPIO init, QTimer hops)    *)
(*                                                                         *)
(* A run_single_sequence call allocates a "generation" g: its movement     *)
(* tasks mt[g] (the run_motor delay thread and the movement it starts),    *)
(* its wait_and_return thread war[g], its return tasks rt[g] and its       *)
(* return coordinators fr[g] / ri[g].  The python lists that the code      *)
(* re-allocates (self.steps_moved, and in main_add.py self.threads) are    *)
(* a heap indexed by the generation that allocated them, because running   *)
(* tasks keep a reference to the list object they were given.              *)
(*                                                                         *)
(* What no live task can read any more is kept in one canonical form: a    *)
(* terminated task forgets its counters, a list slot holding a dead        *)
(* thread reads as None (the code tests "t and t.is_alive()"), and a list  *)
(* nobody references reads as zeros.                                       *)
(*                                                                         *)
(* Time is abstracted: a sleep is a step that may take arbitrarily long    *)
(* compared with the other tasks.                                          *)
(***************************************************************************)
EXTENDS Integers, FiniteSets, Sequences, TLC

\* ------------------------------------------------------------------ bounds
NumMotors == 2          \* actuators modelled (MOTORS has three entries)
MaxRuns == 2            \* run_single_sequence bodies executed in a session
MaxReps == 2            \* largest value of the repetitions spin box used
MaxStops == 1           \* clicks on the Stop button in a session
MaxStopsInSuccession == 2   \* clicks on Stop where two in a row are studied
MaxHandles == 2         \* chip handles the GPIO library hands out (0 and 1)
MaxSpeedTried == 1      \* speeds given to the phases as functions: -1 .. 1
MaxStepsAtStop == 60    \* main2.1.py: steps_moved when Stop is pressed, 1 .. 60

\* ------------------------------------------------------- program constants
STEPS_PER_REV_RPI == 200
STEPS_PER_REV_LGPIO == 400
MIN_ANGLE == 15
MAX_ANGLE == 180
MIN_SPEED == 1
MAX_SPEED == 300
RETURN_SPEED_FACTOR == <<1, 2>>   \* 0.5
HALF_SWING == 25        \* main2.1.py: the direction flips every 25 steps
FULL_SWING == 50        \* main2.1.py: the return ends at a multiple of 50

Motors == 0 .. (NumMotors - 1)
Gens == 1 .. MaxRuns
Lists == 0 .. MaxRuns
Variants == {"main", "v22", "add"}
None == 0
SpeedsTried == (0 - MaxSpeedTried) .. MaxSpeedTried

\* -------------------------------------------------------------- hardware
\* Each motor has a step pin and a dir pin; the code claims them in the
\* order of MOTORS, so what a handle holds is a prefix of that order.
NPins == 2 * NumMotors
Handles == 0 .. (MaxHandles - 1)
NoHandle == -1          \* self.gpio_handle is None
Closed == -1            \* hw[h]: handle h is not open

\* Angles fed to the engine, per actuator.  The engine depends on the angle
\* only through the step count, so small angles (two steps for the first
\* actuator, one for the others, in every variant) stand for the spin box's
\* 15..180 to keep the movement loops short; the step formula itself is
\* checked on the full range under SpecSteps.
EngineAngles(v) == IF v = "v22" THEN <<2, 1>> ELSE <<4, 2>>

VARIABLES
    variant,              \* which source file is running
    rep_spin,             \* configuration surface: repetitions
    return_together_cb,   \* configuration surface: return mode check box
    angle_spins,          \* configuration surface: angle per motor
    is_running_sequence, current_rep, total_reps,
    start_btn, stop_btn,  \* isEnabled() of the two buttons
    gui,                  \* what the GUI thread is doing: "idle" | "dialog"
    gpio_initialized,
    running_events,       \* v22/add: one threading.Event per motor
    stop_event,           \* main: the shared threading.Event
    gen,                  \* generations allocated so far
    steps_moved,          \* heap of steps_moved lists; self.steps_moved is steps_moved[gen]
    threads,              \* heap of self.threads lists (slot -> generation of the MotorThread, or None)
    return_threads,       \* self.return_threads: generation whose Together return built it, or None
    angles,               \* the local "angles" captured by generation g
    mt,                   \* movement tasks: run_motor and the movement it starts
    war,                  \* wait_and_return threads
    rt,                   \* return tasks: started ("loop") with a budget of k pulses, or none
    fr,                   \* finish_return threads
    ri,                   \* return_individual threads
    pend_seqc,            \* sequence_complete signals queued for the GUI thread
    pend_fin,             \* finished signals queued for the GUI thread
    timers,               \* pending single-shot timers for run_single_sequence
    status,               \* the status events emitted by the step just taken
    stop_gen,             \* history: the generation that was current at the last stop()
    stops,                \* history: Stop clicks so far
    calc,                 \* SpecSteps: the step computation under test
    on_pi,                \* ON_PI: the GPIO library could be imported
    gpio_handle,          \* v22/add: self.gpio_handle
    hw                    \* the GPIO chip: pins claimed through each handle, or Closed

cfgvars == <<variant, rep_spin, return_together_cb, angle_spins>>
guivars == <<is_running_sequence, current_rep, total_reps, start_btn, stop_btn, gui, gpio_initialized>>
tokvars == <<running_events, stop_event>>
heapvars == <<gen, steps_moved, threads, angles, mt, war>>
retvars == <<return_threads, rt, fr, ri>>
queuevars == <<pend_seqc, pend_fin, timers>>
histvars == <<stop_gen, stops>>
hwvars == <<on_pi, gpio_handle, hw>>
vars == <<cfgvars, guivars, tokvars, heapvars, retvars, queuevars, status, histvars, calc, hwvars>>

\* ------------------------------------------------------------ step count
STEPS_PER_REV(v) == IF v = "main" THEN STEPS_PER_REV_RPI ELSE STEPS_PER_REV_LGPIO

\* round(STEPS_PER_REV * angle / 360) floored at 1: Python's round() of the
\* quotient num / den, ties going to the even neighbour.
RoundDiv(num, den) ==
    LET q == num \div den
        r == num % den
    IN  IF 2 * r < den THEN q
        ELSE IF 2 * r > den THEN q + 1
        ELSE IF q % 2 = 0 THEN q ELSE q + 1

StepsDen(v) == IF v = "add" THEN 720 ELSE 360

steps_rounded(v, a) ==
    LET s == RoundDiv(STEPS_PER_REV(v) * a, StepsDen(v))
    IN  IF s < 1 THEN 1 ELSE s

\* int(STEPS_PER_REV * angle / 360); main_add.py passes spin.value()/2 as the
\* angle, so its quotient is 400*(a/2)/360 = 400*a/720.  int() truncates, and
\* the operands are positive, so it is the integer quotient.
steps_to_target(v, a) ==
    IF v = "add" THEN (STEPS_PER_REV(v) * a) \div 720
    ELSE (STEPS_PER_REV(v) * a) \div 360

\* ------------------------------------------------------------ task records
\* movement task: pc is "none" | "delay" | "loop" | "dwell" | "done" | "failed";
\* k pulses emitted of n; lst is the steps_moved list the MotorThread holds
NoTask == [pc |-> "none", k |-> 0, n |-> 0, lst |-> 0]
DeadTask == [pc |-> "done", k |-> 0, n |-> 0, lst |-> 0]
\* wait_and_return: joining the thread of generation tgt found in slot j
NoWar == [pc |-> "none", tgt |-> None, j |-> 0]
DeadWar == [pc |-> "done", tgt |-> None, j |-> 0]
\* return task: started with steps_to_return = k and the chip handle h that
\* self.gpio_handle held when it was built, its run() still to come
NoRet == [pc |-> "none", k |-> 0, h |-> NoHandle]
Returning(n) == [pc |-> "loop", k |-> n, h |-> gpio_handle]
NoRi == [pc |-> "none", idx |-> 0]
DeadRi == [pc |-> "done", idx |-> 0]
NoStatus == {}
Zeros == [i \in Motors |-> 0]
NoThreads == [i \in Motors |-> None]
NoCalc == [phase |-> "off", angle |-> 0, steps |-> 0]

\* ------------------------------------------------------------------- Init
EngineInit ==
    /\ rep_spin \in 1 .. MaxReps
    /\ return_together_cb \in BOOLEAN
    /\ angle_spins = [i \in Motors |-> EngineAngles(variant)[IF i = 0 THEN 1 ELSE 2]]
    /\ is_running_sequence = FALSE
    /\ current_rep = 0
    /\ total_reps = 1
    /\ start_btn = TRUE
    /\ stop_btn = FALSE
    /\ gui = "idle"
    /\ gpio_initialized = FALSE
    /\ running_events = [i \in Motors |-> FALSE]
    /\ stop_event = FALSE
    /\ gen = 0
    /\ steps_moved = [l \in Lists |-> Zeros]
    /\ threads = [l \in Lists |-> NoThreads]
    /\ return_threads = None
    /\ angles = [g \in Gens |-> Zeros]
    /\ mt = [g \in Gens |-> [i \in Motors |-> NoTask]]
    /\ war = [g \in Gens |-> NoWar]
    /\ rt = [g \in Gens |-> [i \in Motors |-> NoRet]]
    /\ fr = [g \in Gens |-> "none"]
    /\ ri = [g \in Gens |-> NoRi]
    /\ pend_seqc = 0
    /\ pend_fin = 0
    /\ timers = 0
    /\ status = NoStatus
    /\ stop_gen = 0
    /\ stops = 0
    /\ gpio_handle = NoHandle
    /\ hw = [h \in Handles |-> Closed]

\* The engine off the Raspberry Pi ("simulation mode": the import of the
\* GPIO library failed and every "if ON_PI" block is skipped) ...
InitMain == variant = "main" /\ on_pi = FALSE /\ EngineInit /\ calc = NoCalc
InitV22 == variant = "v22" /\ on_pi = FALSE /\ EngineInit /\ calc = NoCalc
InitAdd == variant = "add" /\ on_pi = FALSE /\ EngineInit /\ calc = NoCalc
\* ... and on the Raspberry Pi, with lgpio
InitV22Pi == variant = "v22" /\ on_pi = TRUE /\ EngineInit /\ calc = NoCalc
InitAddPi == variant = "add" /\ on_pi = TRUE /\ EngineInit /\ calc = NoCalc

\* ------------------------------------------------------- liveness of tasks
\* Thread.is_alive() of a MotorThread
MotorAlive(m, g, i) == m[g][i].pc \in {"loop", "dwell"}
ReturnAlive(g, i) == rt[g][i].pc = "loop"
\* main.py joins the run_motor threads themselves (delay, movement and dwell)
RunMotorAlive(g, i) == mt[g][i].pc \in {"delay", "loop", "dwell"}

\* self.threads as the code reads it now
ThreadsCur == IF variant = "add" THEN gen ELSE 0
\* the self.threads list that wait_and_return of generation g iterates
WarList(g) == IF variant = "add" THEN g ELSE 0

\* ------------------------------------------- what live tasks can still see
\* a steps_moved list is referenced by self (the newest) or by a MotorThread
StepsReferenced(m, g2, l) ==
    IF l = g2 THEN TRUE
    ELSE \E g \in Gens, i \in Motors : MotorAlive(m, g, i) /\ m[g][i].lst = l

\* a self.threads list is referenced by self or by a wait_and_return loop
ThreadsReferenced(w, g2, l) ==
    IF variant = "main" THEN FALSE
    ELSE IF variant = "v22" THEN l = 0
    ELSE IF l = g2 THEN TRUE
    ELSE IF l = 0 THEN FALSE ELSE w[l].pc = "join"

\* every reader of a slot tests "t and t.is_alive()"
Slot(m, t, i) == IF t = None THEN None ELSE IF MotorAlive(m, t, i) THEN t ELSE None

\* the movement side of the heap after a step
Commit(m2, w2, g2, sm2, th2) ==
    /\ mt' = m2
    /\ war' = w2
    /\ gen' = g2
    /\ steps_moved' = [l \in Lists |-> IF StepsReferenced(m2, g2, l) THEN sm2[l] ELSE Zeros]
    /\ threads' = [l \in Lists |->
                     IF ThreadsReferenced(w2, g2, l)
                     THEN [i \in Motors |-> Slot(m2, th2[l][i], i)]
                     ELSE NoThreads]

\* the return side after a step
CommitRet(r2, rl2) ==
    /\ rt' = r2
    /\ return_threads' = IF rl2 = None THEN None
                         ELSE IF \E i \in Motors : r2[rl2][i].pc = "loop" THEN rl2 ELSE None

\* ---------------------------------------------------- run_single_sequence
\* The body after the is_running_sequence guard.
run_single_sequence ==
    /\ gen < MaxRuns
    /\ Commit([mt EXCEPT ![gen + 1] = [i \in Motors |-> [NoTask EXCEPT !.pc = "delay"]]],
              [war EXCEPT ![gen + 1] = [pc |-> "join", tgt |-> None, j |-> 0]],
              gen + 1,
              [steps_moved EXCEPT ![gen + 1] = Zeros],
              IF variant = "add" THEN [threads EXCEPT ![gen + 1] = NoThreads] ELSE threads)
    /\ CommitRet(rt, IF variant = "add" THEN None ELSE return_threads)
    /\ angles' = [angles EXCEPT ![gen + 1] = angle_spins]
    /\ IF variant = "main"
       THEN stop_event' = FALSE /\ UNCHANGED running_events
       ELSE running_events' = [i \in Motors |-> TRUE] /\ UNCHANGED stop_event
    /\ UNCHANGED <<fr, ri>>

\* -------------------------------------------------------------- GUI thread
\* The GUI thread takes a button click from its event loop when no dialog is
\* open.  Signals queued by the worker threads are posted events, which the
\* loop delivers ahead of a later click.
Clickable == gui = "idle" /\ pend_seqc = 0 /\ pend_fin = 0

\* ------------------------------------------------------------- GPIO chip
FreeHandles == {h \in Handles : hw[h] = Closed}
\* gpiochip_open: the library numbers its handles from 0 and hands out the
\* lowest one that is not open
NewHandle == CHOOSE h \in FreeHandles : \A x \in FreeHandles : h <= x
\* some pin is held through a handle that was never closed: a claim of it
\* through another handle fails as busy
PinsBusy == \E h \in Handles : hw[h] > 0

\* The GPIO block of a start: main2.2.py opens the chip and claims the pins
\* on every start, main_add.py (init_gpio_once) on the first start only.
GpioInitNeeded ==
    /\ on_pi /\ variant \in {"v22", "add"}
    /\ variant = "add" => ~(gpio_initialized /\ gpio_handle # NoHandle)

\* gpiochip_open hands out a free handle and every gpio_claim_output succeeds
gpio_init_ok ==
    IF GpioInitNeeded
    THEN /\ ~PinsBusy
         /\ FreeHandles # {}
         /\ gpio_handle' = NewHandle
         /\ hw' = [hw EXCEPT ![NewHandle] = NPins]
    ELSE UNCHANGED <<gpio_handle, hw>>

\* Another application that holds the chip or some of the pins is taken to
\* be there when the session begins, before the first run.
ForeignClaim == gen = 0

\* gpiochip_open raises (the chip is not accessible, or the library has no
\* handle left), or the claim of pin number k of the claim order raises
\* after the k pins before it were claimed: at once when the pins are still
\* held through a handle of this application, at any pin when another
\* application holds it.
gpio_init_fails ==
    /\ GpioInitNeeded
    /\ \/ /\ ForeignClaim \/ FreeHandles = {}
          /\ UNCHANGED <<gpio_handle, hw>>
       \/ /\ FreeHandles # {}
          /\ \E k \in 0 .. (NPins - 1) :
                /\ IF PinsBusy THEN k = 0 ELSE ForeignClaim
                /\ gpio_handle' = NewHandle
                /\ hw' = [hw EXCEPT ![NewHandle] = k]

start_sequence ==
    /\ start_btn /\ Clickable
    /\ total_reps' = rep_spin
    /\ current_rep' = 0
    /\ is_running_sequence' = TRUE
    /\ start_btn' = FALSE
    /\ stop_btn' = TRUE
    /\ gpio_init_ok
    /\ gpio_initialized' = IF variant = "add" /\ on_pi THEN TRUE ELSE gpio_initialized
    /\ run_single_sequence
    /\ status' = NoStatus
    /\ UNCHANGED <<cfgvars, gui, queuevars, histvars, calc, on_pi>>

\* start_sequence when opening the chip or claiming a pin fails: the except
\* branch reports the error and returns before run_single_sequence.
\* main2.2.py re-enables Start itself; main_add.py calls reset_button_states.
start_sequence_gpio_error ==
    /\ start_btn /\ Clickable
    /\ gpio_init_fails
    /\ total_reps' = rep_spin
    /\ current_rep' = 0
    /\ is_running_sequence' = (variant = "v22")
    /\ start_btn' = TRUE
    /\ stop_btn' = FALSE
    /\ status' = {<<"gpio_error", 0, 0, 0>>}
    /\ UNCHANGED <<cfgvars, gui, gpio_initialized, tokvars, heapvars, retvars,
                   queuevars, histvars, calc, on_pi>>

\* The movement threads stop_motors joins: self.running_threads (the
\* run_motor threads of the newest run) in main.py, the live entries of
\* self.threads otherwise.
Joined(g, i) ==
    IF variant = "main" THEN g = gen ELSE threads[ThreadsCur][i] = g

\* main2.2.py, stop_motors: "if ON_PI and self.gpio_handle:" closes the chip,
\* which gives back the pins claimed through the handle; closing a handle
\* that is closed already raises, and the except swallows it.  Handle 0 and
\* None are both false.  main_add.py keeps the chip open until the
\* application exits.
gpiochip_close_on_stop ==
    IF variant = "v22" /\ on_pi /\ gpio_handle \notin {NoHandle, 0}
    THEN hw' = [hw EXCEPT ![gpio_handle] = Closed]
    ELSE UNCHANGED hw

\* A Stop button that acts as pause / resume (what the code does not do):
\* each click flips is_running_sequence.
stop_motors_toggle(limit) ==
    /\ stop_btn /\ Clickable
    /\ stops < limit
    /\ is_running_sequence' = ~is_running_sequence
    /\ IF variant = "main"
       THEN stop_event' = TRUE /\ UNCHANGED running_events
       ELSE running_events' = [i \in Motors |-> FALSE] /\ UNCHANGED stop_event
    /\ LET ends(g, i) == mt[g][i].pc = "loop" /\ Joined(g, i) IN
       /\ Commit([g \in Gens |-> [i \in Motors |->
                     IF ends(g, i) THEN DeadTask ELSE mt[g][i]]],
                 war, gen, steps_moved, threads)
       /\ status' = IF variant = "main"
                    THEN {<<"stopped", i, mt[gen][i].k, mt[gen][i].n>> :
                            i \in {j \in Motors : IF gen = 0 THEN FALSE
                                                  ELSE ends(gen, j) /\ mt[gen][j].k < mt[gen][j].n}}
                    ELSE NoStatus
    /\ IF variant = "add"
       THEN UNCHANGED <<start_btn, stop_btn>>
       ELSE start_btn' = TRUE /\ stop_btn' = FALSE
    /\ gpiochip_close_on_stop
    /\ stop_gen' = gen
    /\ stops' = stops + 1
    /\ UNCHANGED <<cfgvars, current_rep, total_reps, gui, gpio_initialized, angles,
                   retvars, queuevars, calc, on_pi, gpio_handle>>

\* stop_motors.  A joined thread that is in its step loop tests the token
\* before its next pulse, so the join sees it end; a bounded join gives up
\* on a thread that sleeps longer than the timeout (a delay, a dwell), which
\* therefore may outlive stop_motors.
stop_motors_upto(limit) ==
    /\ stop_btn /\ Clickable
    /\ stops < limit
    /\ is_running_sequence' = FALSE
    /\ IF variant = "main"
       THEN stop_event' = TRUE /\ UNCHANGED running_events
       ELSE running_events' = [i \in Motors |-> FALSE] /\ UNCHANGED stop_event
    /\ LET ends(g, i) == mt[g][i].pc = "loop" /\ Joined(g, i) IN
       /\ Commit([g \in Gens |-> [i \in Motors |->
                     IF ends(g, i) THEN DeadTask ELSE mt[g][i]]],
                 war, gen, steps_moved, threads)
       /\ status' = IF variant = "main"
                    THEN {<<"stopped", i, mt[gen][i].k, mt[gen][i].n>> :
                            i \in {j \in Motors : IF gen = 0 THEN FALSE
                                                  ELSE ends(gen, j) /\ mt[gen][j].k < mt[gen][j].n}}
                    ELSE NoStatus
    /\ IF variant = "add"
       THEN UNCHANGED <<start_btn, stop_btn>>
       ELSE start_btn' = TRUE /\ stop_btn' = FALSE
    /\ gpiochip_close_on_stop
    /\ stop_gen' = gen
    /\ stops' = stops + 1
    /\ UNCHANGED <<cfgvars, current_rep, total_reps, gui, gpio_initialized, angles,
                   retvars, queuevars, calc, on_pi, gpio_handle>>

\* a click on Stop
stop_motors == stop_motors_upto(MaxStops)

\* A click on Stop where a second click in succession is possible: only
\* main_add.py leaves the Stop button enabled after a stop.  The second
\* click comes before any new start.
stop_motors_twice ==
    /\ stops >= 1 => (stop_gen = gen /\ ~is_running_sequence)
    /\ stop_motors_upto(MaxStopsInSuccession)

\* main_add.py: the "Reset Buttons" button of the status tab.  The operator
\* is taken to press it for what it is there for: to get the Start button
\* back after a stop, which stop_motors of main_add.py leaves disabled.
reset_button_states ==
    /\ variant = "add" /\ Clickable
    /\ ~start_btn /\ ~is_running_sequence
    /\ start_btn' = TRUE
    /\ stop_btn' = FALSE
    /\ is_running_sequence' = FALSE
    /\ status' = NoStatus
    /\ UNCHANGED <<cfgvars, current_rep, total_reps, gui, gpio_initialized, tokvars,
                   heapvars, retvars, queuevars, histvars, calc, hwvars>>

\* The GUI thread dispatches queued signals and timers from its event loop,
\* and also from the nested loop of the modal "Done" dialog.
Dispatching == gui \in {"idle", "dialog"}

\* show_finished up to its modal QMessageBox.  A dialog opened while one is
\* already open stacks on it; the stack is dismissed in one step.
show_finished_dialog ==
    /\ gui' = "dialog"
    /\ status' = {<<"finished", 0, 0, 0>>}

on_sequence_complete ==
    /\ pend_seqc > 0 /\ Dispatching
    /\ pend_seqc' = pend_seqc - 1
    /\ current_rep' = current_rep + 1
    /\ IF current_rep + 1 < total_reps
       THEN /\ timers' = timers + 1
            /\ status' = NoStatus
            /\ UNCHANGED <<pend_fin, gui>>
       ELSE IF variant = "add"
            THEN /\ pend_fin' = pend_fin + 1
                 /\ status' = NoStatus
                 /\ UNCHANGED <<timers, gui>>
            ELSE /\ show_finished_dialog
                 /\ UNCHANGED <<timers, pend_fin>>
    /\ UNCHANGED <<cfgvars, is_running_sequence, total_reps, start_btn, stop_btn,
                   gpio_initialized, tokvars, heapvars, retvars, histvars, calc, hwvars>>

\* main_add.py delivers finished through two zero-length timers
show_finished ==
    /\ pend_fin > 0 /\ Dispatching
    /\ pend_fin' = pend_fin - 1
    /\ show_finished_dialog
    /\ UNCHANGED <<cfgvars, is_running_sequence, current_rep, total_reps, start_btn, stop_btn,
                   gpio_initialized, tokvars, heapvars, retvars, pend_seqc, timers,
                   histvars, calc, hwvars>>

\* the dialog is dismissed and show_finished runs to its end
show_finished_return ==
    /\ gui = "dialog"
    /\ gui' = "idle"
    /\ start_btn' = TRUE
    /\ stop_btn' = FALSE
    /\ is_running_sequence' = FALSE
    /\ status' = NoStatus
    /\ UNCHANGED <<cfgvars, current_rep, total_reps, gpio_initialized, tokvars, heapvars,
                   retvars, queuevars, histvars, calc, hwvars>>

\* The inter-repetition timer fires and calls run_single_sequence: on the
\* GUI thread in main_add.py (QTimer), on a timer thread otherwise.
timer_run_single_sequence ==
    /\ timers > 0
    /\ IF variant = "add" THEN Dispatching ELSE TRUE
    /\ timers' = timers - 1
    /\ IF is_running_sequence
       THEN run_single_sequence
       ELSE UNCHANGED <<tokvars, heapvars, retvars>>
    /\ status' = NoStatus
    /\ UNCHANGED <<cfgvars, guivars, pend_seqc, pend_fin, histvars, calc, hwvars>>

\* ------------------------------------------------------------ worker tasks
\* run_motor: the start delay is over
run_motor(g, i) ==
    /\ mt[g][i].pc = "delay"
    /\ LET n == steps_to_target(variant, angles[g][i])
           go == IF variant = "main" THEN ~stop_event ELSE is_running_sequence
           task == [pc |-> IF variant # "main" /\ n = 0 THEN "dwell" ELSE "loop",
                    k |-> 0, n |-> n, lst |-> IF variant = "main" THEN 0 ELSE gen]
       IN IF go
          THEN Commit([mt EXCEPT ![g][i] = task], war, gen, steps_moved,
                      IF variant = "main" THEN threads
                      ELSE [threads EXCEPT ![ThreadsCur][i] = g])
          ELSE Commit([mt EXCEPT ![g][i] = DeadTask], war, gen, steps_moved, threads)
    /\ status' = NoStatus
    /\ UNCHANGED <<cfgvars, guivars, tokvars, angles, retvars, queuevars, histvars, calc, hwvars>>

\* MotorThread.run of main2.2.py / main_add.py: one pass of the while loop
MotorThread_step(g, i) ==
    /\ variant # "main"
    /\ mt[g][i].pc = "loop"
    /\ LET t == mt[g][i] IN
       IF running_events[i]
       THEN Commit([mt EXCEPT ![g][i].k = t.k + 1,
                              ![g][i].pc = IF t.k + 1 >= t.n THEN "dwell" ELSE "loop"],
                   war, gen, [steps_moved EXCEPT ![t.lst][i] = @ + 1], threads)
       ELSE Commit([mt EXCEPT ![g][i] = DeadTask], war, gen, steps_moved, threads)
    /\ status' = NoStatus
    /\ UNCHANGED <<cfgvars, guivars, tokvars, angles, retvars, queuevars, histvars, calc, hwvars>>

\* move_motor of main.py: one pass of the for loop, or the test after it
move_motor_step(g, i) ==
    /\ variant = "main"
    /\ mt[g][i].pc = "loop"
    /\ LET t == mt[g][i] IN
       IF t.k < t.n
       THEN IF stop_event
            THEN /\ Commit([mt EXCEPT ![g][i] = DeadTask], war, gen, steps_moved, threads)
                 /\ status' = {<<"stopped", i, t.k, t.n>>}
            ELSE /\ Commit([mt EXCEPT ![g][i].k = t.k + 1], war, gen, steps_moved, threads)
                 /\ status' = NoStatus
       ELSE /\ Commit([mt EXCEPT ![g][i] = IF stop_event THEN DeadTask
                                           ELSE [t EXCEPT !.pc = "dwell"]],
                      war, gen, steps_moved, threads)
            /\ status' = NoStatus
    /\ UNCHANGED <<cfgvars, guivars, tokvars, angles, retvars, queuevars, histvars, calc, hwvars>>

\* the 3 s wait at the target is over
dwell_end(g, i) ==
    /\ mt[g][i].pc = "dwell"
    /\ Commit([mt EXCEPT ![g][i] = DeadTask], war, gen,
              IF variant = "main" /\ ~stop_event
              THEN [steps_moved EXCEPT ![gen][i] = mt[g][i].n]
              ELSE steps_moved,
              threads)
    /\ status' = NoStatus
    /\ UNCHANGED <<cfgvars, guivars, tokvars, angles, retvars, queuevars, histvars, calc, hwvars>>

\* ------------------------------------------------------- return phase
\* In main.py the nested "def return_motor(idx=idx, m=m)" shadows the global
\* return_motor, so each return thread raises TypeError before any pulse.
return_all_motors_together(g) ==
    /\ CommitRet([rt EXCEPT ![g] = [i \in Motors |->
                    IF steps_moved[gen][i] > 0 /\ variant # "main"
                    THEN Returning(steps_moved[gen][i]) ELSE NoRet]],
                 IF variant = "main" THEN return_threads ELSE g)
    /\ status' = NoStatus
    /\ fr' = [fr EXCEPT ![g] = "join"]
    /\ UNCHANGED ri

return_motors_individually(g) ==
    /\ ri' = [ri EXCEPT ![g] = [pc |-> "check", idx |-> 0]]
    /\ status' = NoStatus
    /\ UNCHANGED <<return_threads, rt, fr>>

\* the next slot of the list, at or after index from, holding a live thread
FirstAlive(l, from) ==
    LET alive == {j \in Motors : j >= from /\ threads[l][j] # None}
    IN IF alive = {} THEN NumMotors
       ELSE CHOOSE j \in alive : \A j2 \in alive : j <= j2

\* wait_and_return: the joins of the movement tasks, then the return phase
wait_and_return(g) ==
    /\ war[g].pc = "join"
    /\ LET w == war[g]
           joined == IF variant = "main"
                     THEN \A i \in Motors : ~RunMotorAlive(g, i)
                     ELSE IF w.tgt = None THEN TRUE ELSE ~MotorAlive(mt, w.tgt, w.j)
           from == IF w.tgt = None THEN w.j ELSE w.j + 1
           nxt == IF variant = "main" THEN NumMotors ELSE FirstAlive(WarList(g), from)
       IN /\ joined
          /\ IF nxt < NumMotors
             THEN /\ Commit(mt, [war EXCEPT ![g] = [pc |-> "join",
                                                    tgt |-> threads[WarList(g)][nxt],
                                                    j |-> nxt]],
                            gen, steps_moved, threads)
                  /\ status' = NoStatus
                  /\ UNCHANGED retvars
             ELSE /\ Commit(mt, [war EXCEPT ![g] = DeadWar], gen, steps_moved, threads)
                  /\ IF ~is_running_sequence
                     THEN status' = NoStatus /\ UNCHANGED retvars
                     ELSE IF return_together_cb
                          THEN return_all_motors_together(g)
                          ELSE return_motors_individually(g)
    /\ UNCHANGED <<cfgvars, guivars, tokvars, angles, queuevars, histvars, calc, hwvars>>

\* A return loop that counts steps_moved down as it pulses back (what the
\* code does not do).
ReturnThread_run_countdown(g, i) ==
    /\ rt[g][i].pc = "loop"
    /\ CommitRet([rt EXCEPT ![g][i] = NoRet], return_threads)
    /\ Commit(mt, war, gen, [steps_moved EXCEPT ![gen][i] = 0], threads)
    /\ status' = {<<"returned", i, 0, 0>>}
    /\ UNCHANGED <<cfgvars, guivars, tokvars, angles, fr, ri, queuevars, histvars, calc, hwvars>>

\* the handle a return task writes through has been closed
WritesReleased(t) == on_pi /\ t.h # NoHandle /\ hw[t.h] = Closed

\* ReturnThread.run / return_motor, the whole body in one step: the loop
\* reads no token and no shared variable, so it emits its k pulses and
\* reports "returned to start position".  On the Raspberry Pi its first
\* write through a closed handle raises and ends the thread.
ReturnThread_run(g, i) ==
    /\ rt[g][i].pc = "loop"
    /\ CommitRet([rt EXCEPT ![g][i] = NoRet], return_threads)
    /\ status' = IF WritesReleased(rt[g][i]) THEN NoStatus ELSE {<<"returned", i, 0, 0>>}
    /\ UNCHANGED <<cfgvars, guivars, tokvars, heapvars, fr, ri, queuevars, histvars, calc, hwvars>>

finish_return(g) ==
    /\ fr[g] = "join"
    /\ \A i \in Motors : ~ReturnAlive(g, i)
    /\ fr' = [fr EXCEPT ![g] = "done"]
    /\ pend_seqc' = IF is_running_sequence THEN pend_seqc + 1 ELSE pend_seqc
    /\ status' = NoStatus
    /\ UNCHANGED <<cfgvars, guivars, tokvars, heapvars, return_threads, rt, ri,
                   pend_fin, timers, histvars, calc, hwvars>>

\* return_individual(idx): the test at its head and the launch of one return
return_individual(g) ==
    /\ ri[g].pc = "check"
    /\ LET idx == ri[g].idx IN
       IF (IF idx >= NumMotors THEN TRUE ELSE ~is_running_sequence)
       THEN /\ ri' = [ri EXCEPT ![g] = DeadRi]
            /\ pend_seqc' = IF variant = "add" /\ ~is_running_sequence
                            THEN pend_seqc ELSE pend_seqc + 1
            /\ status' = NoStatus
            /\ UNCHANGED <<rt, return_threads>>
       ELSE /\ IF steps_moved[gen][idx] > 0
               THEN /\ CommitRet([rt EXCEPT ![g][idx] = Returning(steps_moved[gen][idx])],
                              return_threads)
                    /\ ri' = [ri EXCEPT ![g].pc = "ret"]
                    /\ status' = NoStatus
               ELSE /\ ri' = [ri EXCEPT ![g].idx = idx + 1]
                    /\ status' = NoStatus
                    /\ UNCHANGED <<rt, return_threads>>
            /\ UNCHANGED pend_seqc
    /\ UNCHANGED <<cfgvars, guivars, tokvars, heapvars, fr, pend_fin, timers, histvars, calc, hwvars>>

\* the return of actuator idx has ended; the 1 s pause that follows is part
\* of the wait before the next test
return_individual_joined(g) ==
    /\ ri[g].pc = "ret"
    /\ ~ReturnAlive(g, ri[g].idx)
    /\ ri' = [ri EXCEPT ![g].pc = "check", ![g].idx = @ + 1]
    /\ status' = NoStatus
    /\ UNCHANGED <<cfgvars, guivars, tokvars, heapvars, return_threads, rt, fr,
                   queuevars, histvars, calc, hwvars>>

\* ------------------------------------------------------------------- Next
Workers ==
    \/ \E g \in Gens, i \in Motors : run_motor(g, i)
    \/ \E g \in Gens, i \in Motors : dwell_end(g, i)
    \/ \E g \in Gens : wait_and_return(g)
    \/ \E g \in Gens, i \in Motors : ReturnThread_run(g, i)
    \/ \E g \in Gens : finish_return(g)
    \/ \E g \in Gens : return_individual(g)
    \/ \E g \in Gens : return_individual_joined(g)

NextMain ==
    \/ start_sequence
    \/ stop_motors
    \/ on_sequence_complete
    \/ show_finished_return
    \/ timer_run_single_sequence
    \/ \E g \in Gens, i \in Motors : move_motor_step(g, i)
    \/ Workers

NextV22 ==
    \/ start_sequence
    \/ stop_motors
    \/ on_sequence_complete
    \/ show_finished_return
    \/ timer_run_single_sequence
    \/ \E g \in Gens, i \in Motors : MotorThread_step(g, i)
    \/ Workers

NextAdd ==
    \/ start_sequence
    \/ stop_motors
    \/ reset_button_states
    \/ on_sequence_complete
    \/ show_finished
    \/ show_finished_return
    \/ timer_run_single_sequence
    \/ \E g \in Gens, i \in Motors : MotorThread_step(g, i)
    \/ Workers

\* On the Raspberry Pi a start may fail in its GPIO block
NextV22Pi ==
    \/ start_sequence_gpio_error
    \/ NextV22

NextAddPi ==
    \/ start_sequence_gpio_error
    \/ NextAdd

\* main_add.py with a second click on Stop right after the first, in a
\* session where the "Reset Buttons" button is left alone
NextAddStops ==
    \/ start_sequence
    \/ stop_motors_twice
    \/ on_sequence_complete
    \/ show_finished
    \/ show_finished_return
    \/ timer_run_single_sequence
    \/ \E g \in Gens, i \in Motors : MotorThread_step(g, i)
    \/ Workers

\* --------------------------------------------- the configuration surface
\* The widgets of the configuration tab stay enabled while a run is in
\* progress; an edit is an event of the GUI thread.
CfgAngles == {EngineAngles(variant)[1], EngineAngles(variant)[2]}

\* The operator edits the angle spin box of motor i.  One edit in a session
\* is studied: it is made during the first repetition of a run, while the
\* spin boxes still hold what they held at the start.
set_angle_spin(i, a) ==
    /\ Clickable
    /\ is_running_sequence /\ current_rep = 0
    /\ \A j \in Motors : angle_spins[j] = angles[IF gen = 0 THEN 1 ELSE gen][j]
    /\ angle_spins[i] # a
    /\ angle_spins' = [angle_spins EXCEPT ![i] = a]
    /\ status' = NoStatus
    /\ UNCHANGED <<variant, rep_spin, return_together_cb, guivars, tokvars, heapvars,
                   retvars, queuevars, histvars, calc, hwvars>>

\* main2.2.py in a session without Stop, in which the operator edits the
\* configuration
NextV22Cfg ==
    \/ start_sequence
    \/ \E i \in Motors, a \in CfgAngles : set_angle_spin(i, a)
    \/ on_sequence_complete
    \/ show_finished_return
    \/ timer_run_single_sequence
    \/ \E g \in Gens, i \in Motors : MotorThread_step(g, i)
    \/ Workers

\* ------------------------------------------------- the step computation
\* The step count on the whole range of the angle spin box, for each variant.
InitSteps ==
    /\ variant \in Variants
    /\ on_pi = FALSE
    /\ EngineInit
    /\ calc \in [phase : {"in"}, angle : MIN_ANGLE .. MAX_ANGLE, steps : {0}]

\* MotorThread.__init__ / move_motor compute the step count of the movement
compute_steps ==
    /\ calc.phase = "in"
    /\ calc' = [calc EXCEPT !.phase = "out", !.steps = steps_to_target(variant, calc.angle)]
    /\ UNCHANGED <<cfgvars, guivars, tokvars, heapvars, retvars, queuevars, status, histvars, hwvars>>

NextSteps == compute_steps

\* ------------------------------------------------- the half-step delay
\* Times and speeds are exact fractions <<numerator, denominator>> with a
\* positive denominator.
FracLess(a, b) == a[1] * b[2] < b[1] * a[2]
FracEq(a, b) == a[1] * b[2] = b[1] * a[2]
FracMul(a, b) == <<a[1] * b[1], a[2] * b[2]>>

\* A delay that is the whole step period instead of half of it (what the
\* code does not compute)
step_delay_whole(v, speed) == <<60 * speed[2], STEPS_PER_REV(v) * speed[1]>>

\* step_delay = 60.0 / (STEPS_PER_REV * speed_rpm) / 2, in seconds
step_delay(v, speed) == <<60 * speed[2], (STEPS_PER_REV(v) * speed[1]) * 2>>

\* ReturnThread.__init__ / return_motor: speed_rpm * return_speed_factor
return_speed(speed) == FracMul(speed, RETURN_SPEED_FACTOR)

InitDelay ==
    /\ variant \in Variants
    /\ on_pi = FALSE
    /\ EngineInit
    /\ calc \in [phase : {"in"}, speed : MIN_SPEED .. MAX_SPEED,
                 fwd : {<<0, 1>>}, ret : {<<0, 1>>}]

\* MotorThread.run / move_motor and ReturnThread.run / return_motor compute
\* their delay for the speed of the spin box
compute_delays ==
    /\ calc.phase = "in"
    /\ calc' = [calc EXCEPT !.phase = "out",
                            !.fwd = step_delay(variant, <<calc.speed, 1>>),
                            !.ret = step_delay(variant, return_speed(<<calc.speed, 1>>))]
    /\ UNCHANGED <<cfgvars, guivars, tokvars, heapvars, retvars, queuevars, status, histvars, hwvars>>

NextDelay == compute_delays

\* -------------------------------------- the phases as functions of the speed
\* The movement of one actuator in a run that is not stopped, for a speed
\* that may be zero or negative (the functions take any number):
\*   pulses   step pulses emitted
\*   moved    steps_moved[i] afterwards
\*   reached  a "reached target" event was emitted
\*   baddelay the delay formula was evaluated with the speed (it divides by
\*            zero for 0 and yields a negative sleep for a negative speed)
\* main.py: move_motor returns at once for speed_rpm <= 0, and run_motor
\* then reports the target as reached and stores the full step count.
\* main2.2.py / main_add.py: MotorThread.run evaluates the formula first.
MoveOutcome(v, speed, n) ==
    IF speed > 0
    THEN [pulses |-> n, moved |-> n, reached |-> TRUE, baddelay |-> FALSE]
    ELSE IF v = "main"
         THEN [pulses |-> 0, moved |-> n, reached |-> TRUE, baddelay |-> FALSE]
         ELSE [pulses |-> 0, moved |-> 0, reached |-> FALSE, baddelay |-> TRUE]

\* The return of the actuator: the callers launch it when steps_moved[i] > 0
\* and return_motor / ReturnThread.run evaluate the formula with
\* speed * 0.5 before the first pulse.
ReturnOutcome(v, speed, moved) ==
    IF moved <= 0 THEN [pulses |-> 0, baddelay |-> FALSE]
    ELSE IF speed > 0 THEN [pulses |-> moved, baddelay |-> FALSE]
    ELSE [pulses |-> 0, baddelay |-> TRUE]

InitSpeed ==
    /\ variant \in Variants
    /\ on_pi = FALSE
    /\ EngineInit
    /\ calc \in [phase : {"in"}, speed : SpeedsTried, angle : MIN_ANGLE .. MAX_ANGLE,
                 move : {MoveOutcome("main", 1, 0)}, ret : {ReturnOutcome("main", 1, 0)}]

\* run_motor and the return of its actuator, for the speed given
run_motor_at_speed ==
    /\ calc.phase = "in"
    /\ LET m == MoveOutcome(variant, calc.speed, steps_to_target(variant, calc.angle)) IN
       calc' = [calc EXCEPT !.phase = "out", !.move = m,
                            !.ret = ReturnOutcome(variant, calc.speed, m.moved)]
    /\ UNCHANGED <<cfgvars, guivars, tokvars, heapvars, retvars, queuevars, status, histvars, hwvars>>

NextSpeed == run_motor_at_speed

\* --------------------------------------------- a failing movement task
\* MotorThread.run has no try block: an exception raised in its loop (a GPIO
\* write that fails, say) ends that thread and nothing else; the pulses
\* counted so far stay in steps_moved.
FailedTask == [pc |-> "failed", k |-> 0, n |-> 0, lst |-> 0]

\* the failure of one movement task of a repetition, in mid-movement
MotorThread_raises(g, i) ==
    /\ variant # "main"
    /\ mt[g][i].pc = "loop"
    /\ \A j \in Motors : mt[g][j].pc # "failed"
    /\ Commit([mt EXCEPT ![g][i] = FailedTask], war, gen, steps_moved, threads)
    /\ status' = NoStatus
    /\ UNCHANGED <<cfgvars, guivars, tokvars, angles, retvars, queuevars, histvars, calc, hwvars>>

\* main_add.py in a session without Stop, where a movement task may fail
NextAddFail ==
    \/ start_sequence
    \/ on_sequence_complete
    \/ show_finished
    \/ show_finished_return
    \/ timer_run_single_sequence
    \/ \E g \in Gens, i \in Motors : MotorThread_step(g, i)
    \/ \E g \in Gens, i \in Motors : MotorThread_raises(g, i)
    \/ Workers

\* ------------------------------------- main2.1.py: the oscillating variant
\* A task's walk: p is the net displacement (pulses with the direction line
\* high minus pulses with it low), d is +1 or -1 for the direction line, n
\* counts the pulses.  The direction is flipped after every pulse that
\* brings the step counter to a multiple of HALF_SWING.
Flip(c, d) == IF c % HALF_SWING = 0 THEN 0 - d ELSE d

\* MotorThread.run: the while loop, for the left pulses still to come before
\* the token is cleared; s is steps_moved[idx]
RECURSIVE MoveWalk(_, _, _, _)
MoveWalk(left, s, d, p) ==
    IF left = 0 THEN [s |-> s, d |-> d, p |-> p]
    ELSE MoveWalk(left - 1, s + 1, Flip(s + 1, d), p + d)

\* ReturnThread.run: the "while True" loop, left at the pulse that brings s
\* to a multiple of FULL_SWING
RECURSIVE ReturnWalk(_, _, _, _)
ReturnWalk(s, d, p, n) ==
    IF (s + 1) % FULL_SWING = 0 THEN [p |-> p + d, n |-> n + 1]
    ELSE ReturnWalk(s + 1, Flip(s + 1, d), p + d, n + 1)

\* the direction line for a start position: True for 'A'
StartDirection(pos) == IF pos = "A" THEN 1 ELSE 0 - 1

InitOsc ==
    /\ variant = "v21"
    /\ on_pi = FALSE
    /\ EngineInit
    /\ calc \in [phase : {"in"}, stop_at : 1 .. MaxStepsAtStop, start : {"A", "B"},
                 s : {0}, p : {0}, n : {0}]

\* the movement task runs until Stop clears its token after stop_at pulses
MotorThread_run_v21 ==
    /\ calc.phase = "in"
    /\ LET w == MoveWalk(calc.stop_at, 0, StartDirection(calc.start), 0) IN
       calc' = [calc EXCEPT !.phase = "moved", !.s = w.s, !.p = w.p]
    /\ UNCHANGED <<cfgvars, guivars, tokvars, heapvars, retvars, queuevars, status, histvars, hwvars>>

\* stop_motors builds the ReturnThread with steps_to_return = steps_moved[idx]
\* and the direction of the start position, and the thread runs to its end
ReturnThread_run_v21 ==
    /\ calc.phase = "moved"
    /\ calc.s # 0
    /\ LET w == ReturnWalk(calc.s, StartDirection(calc.start), calc.p, 0) IN
       calc' = [calc EXCEPT !.phase = "returned", !.p = w.p, !.n = w.n]
    /\ UNCHANGED <<cfgvars, guivars, tokvars, heapvars, retvars, queuevars, status, histvars, hwvars>>

NextOsc ==
    \/ MotorThread_run_v21
    \/ ReturnThread_run_v21

SpecMain == InitMain /\ [][NextMain]_vars
SpecV22 == InitV22 /\ [][NextV22]_vars
SpecAdd == InitAdd /\ [][NextAdd]_vars
SpecSteps == InitSteps /\ [][NextSteps]_vars
SpecAddStops == InitAdd /\ [][NextAddStops]_vars
SpecV22Pi == InitV22Pi /\ [][NextV22Pi]_vars
SpecAddPi == InitAddPi /\ [][NextAddPi]_vars
SpecV22Cfg == InitV22 /\ [][NextV22Cfg]_vars
SpecDelay == InitDelay /\ [][NextDelay]_vars
SpecSpeed == InitSpeed /\ [][NextSpeed]_vars
SpecAddFail == InitAdd /\ [][NextAddFail]_vars
SpecOsc == InitOsc /\ [][NextOsc]_vars

\* ==================================================================== C1
\* the return phase of generation g has begun: its coordinator thread
\* (finish_return or return_individual) has been started
ReturnPhaseBegun(g) == fr[g] # "none" \/ ri[g].pc # "none"

\* C1 (movement/return barrier): whenever the return phase of a repetition
\* has begun, every movement task of that repetition is terminal; none of
\* its actuators is still delaying, pulsing or dwelling.
C1_Barrier ==
    \A g \in Gens : ReturnPhaseBegun(g) => \A i \in Motors : mt[g][i].pc = "done"

\* ==================================================================== C2
\* the token a movement task tests before its next pulse lets it go on
TokenGo(i) == IF variant = "main" THEN ~stop_event ELSE running_events[i]

\* the movement task (g, i) is in its step loop and about to pulse the pins
MovePulsing(g, i) == mt[g][i].pc = "loop" /\ mt[g][i].k < mt[g][i].n /\ TokenGo(i)

\* the tasks, of any generation, that are pulsing the pin pair of actuator i
PulsingTasks(i) ==
    {<<"move", g>> : g \in {h \in Gens : MovePulsing(h, i)}}
        \cup {<<"return", g>> : g \in {h \in Gens : ReturnAlive(h, i)}}

\* C2 (pin exclusivity): in every reachable state at most one task, movement
\* or return, of any repetition or run, is pulsing the pins of an actuator.
C2_PinExclusive == \A i \in Motors : Cardinality(PulsingTasks(i)) <= 1

\* ==================================================================== C3
\* generation g was spawned by a run that stop() has cancelled
StoppedGen(g) == g <= stop_gen

\* the cancellation state as the next test of a task of generation g reads
\* it: a delaying run_motor tests stop_event (main.py) or is_running_sequence,
\* a stepping movement task tests its token, and the coordinators test
\* is_running_sequence
SeesNotCancelled(g) ==
    \/ \E i \in Motors : /\ mt[g][i].pc = "delay"
                         /\ IF variant = "main" THEN ~stop_event ELSE is_running_sequence
    \/ \E i \in Motors : mt[g][i].pc = "loop" /\ TokenGo(i)
    \/ (war[g].pc = "join" \/ fr[g] = "join" \/ ri[g].pc \in {"check", "ret"})
           /\ is_running_sequence

\* C3 (cancellation is set-once and per run): once stop() has cancelled a
\* run, no task spawned by that run ever reads the cancellation state as
\* "not cancelled" again, also after a later start().
C3_SetOnce == \A g \in Gens : StoppedGen(g) => ~SeesNotCancelled(g)

\* ==================================================================== C4
\* a step of the return phase: a return task or a return coordinator moves
ReturnPhaseStep == rt' # rt \/ fr' # fr \/ ri' # ri

\* the return phase of generation g has completed: its coordinator has
\* ended and none of its return tasks is left
ReturnPhaseComplete(g) ==
    (fr[g] = "done" \/ ri[g].pc = "done") /\ \A i \in Motors : ~ReturnAlive(g, i)

Uncancelled == gen >= 1 /\ stop_gen < gen

\* C5 (event counts, Together mode): in an uncancelled run of R repetitions
\* the number of "cycle complete" events (current_rep counts them since
\* start) never exceeds R, and "sequence complete" is emitted only when
\* exactly R of them have been emitted, hence once and after all of them.
C5_EventCounts ==
    (return_together_cb /\ Uncancelled) =>
        /\ current_rep <= total_reps
        /\ (<<"finished", 0, 0, 0>> \in status => current_rep = total_reps)


C7_ExactPulses ==
    \A g \in Gens : \A i \in Motors :
        (g > stop_gen /\ mt[g][i].pc = "dwell") =>
            /\ mt[g][i].k = mt[g][i].n
            /\ variant # "main" => steps_moved[mt[g][i].lst][i] = mt[g][i].n


\* ---------------------------------------------------------------- C8
\* C8: whenever a movement task ends in its pulse loop after k of its n steps
\* (k < n) because it observed the stop, the step in which it ends emits the
\* status event "stopped after k/n steps" for its actuator, k being the
\* number of pulses it emitted.
C8_StopReported ==
    [][\A g \in Gens : \A i \in Motors :
          (mt[g][i].pc = "loop" /\ mt[g][i].k < mt[g][i].n /\ mt'[g][i].pc = "done")
              => <<"stopped", i, mt[g][i].k, mt[g][i].n>> \in status']_vars


\* ---------------------------------------------------------------- C9
\* C9: when the coordinator of a stopped run has passed its joins and an
\* actuator of that run was stopped after k of its n steps (0 < k < n, k held
\* in steps_moved), a return phase for the run begins, so that the actuator
\* is pulsed back by its k steps.
C9_PartialReturn ==
    [][\A g \in Gens : \A i \in Motors :
          (/\ g = gen /\ stop_gen = g
           /\ war[g].pc = "join" /\ war'[g].pc = "done"
           /\ mt[g][i].pc = "done"
           /\ 0 < steps_moved[g][i]
           /\ steps_moved[g][i] < steps_to_target(variant, angles[g][i]))
              => ReturnPhaseBegun(g)']_vars


\* ---------------------------------------------------------------- C10
\* some task of a run (a movement task, a coordinator, a return) has not ended:
\* the sequence is Running, or a stop of it has not yet taken full effect
TasksOutstanding ==
    \E g \in Gens :
        \/ \E i \in Motors : RunMotorAlive(g, i) \/ ReturnAlive(g, i)
        \/ war[g].pc = "join"
        \/ fr[g] = "join"
        \/ ri[g].pc \in {"check", "ret"}

\* C10: while tasks of a run are outstanding (Running or Stopping) a click
\* on Start (the step that disables the Start button) is a no-op: it spawns
\* no task and leaves current_rep, total_reps and steps_moved alone.
C10_StartRejected ==
    [][TasksOutstanding =>
          (start_btn /\ ~start_btn' =>
              /\ gen' = gen
              /\ mt' = mt
              /\ <<current_rep, total_reps, steps_moved>>' = <<current_rep, total_reps, steps_moved>>)]_vars


\* ---------------------------------------------------------------- C11
\* the step is a run of stop_motors
StopStep == stops' = stops + 1

\* C11: when stop_motors returns the orchestrator is Idle, whatever phase it
\* was called in: is_running_sequence is False, the Start button is enabled
\* and the Stop button is disabled.
C11_IdleAfterStop ==
    [][StopStep => (~is_running_sequence' /\ start_btn' /\ ~stop_btn')]_vars


\* ---------------------------------------------------------------- C12
\* the engine state that stop_motors is about
EngineState ==
    <<running_events, stop_event, is_running_sequence, steps_moved[gen],
      current_rep, total_reps, gpio_initialized, start_btn, stop_btn>>

\* the step is a second run of stop_motors with no start since the first
SecondStopStep == StopStep /\ stops >= 1 /\ stop_gen = gen

\* C12: stop_motors called a second time in succession changes nothing of
\* the cancellation flags, is_running_sequence, steps_moved, current_rep or
\* the GPIO state that the first call left.
C12_StopIdempotent == [][SecondStopStep => EngineState' = EngineState]_vars

\* a second stop in succession has run
C12_Witness == stops = MaxStopsInSuccession /\ stop_gen = gen /\ gen >= 1


\* ---------------------------------------------------------------- C13
\* C13: when stop_motors returns, steps_moved of every actuator of the
\* interrupted repetition that was in its pulse loop reads the number of
\* pulses the actuator's movement task emitted.
C13_PartialCounted ==
    [][StopStep =>
          \A i \in Motors :
              (gen >= 1 /\ mt[IF gen = 0 THEN 1 ELSE gen][i].pc = "loop")
                  => steps_moved'[gen][i] = mt[IF gen = 0 THEN 1 ELSE gen][i].k]_vars


\* ---------------------------------------------------------------- C14
\* the GUI thread takes a sequence_complete signal: the repetition transition
RepetitionTransition == current_rep' = current_rep + 1

\* C14: in Together mode the repetition transition (sequence_complete taken,
\* the next repetition scheduled or the run finished) happens only when every
\* return task launched for the current repetition has ended.
C14_ReturnBarrier ==
    [][(return_together_cb /\ RepetitionTransition) =>
          \A i \in Motors : gen >= 1 => ~ReturnAlive(IF gen = 0 THEN 1 ELSE gen, i)]_vars


\* ---------------------------------------------------------------- C15
\* the return tasks that are pulsing
ActiveReturns == {p \in Gens \X Motors : ReturnAlive(p[1], p[2])}

\* C15: in Sequential mode at most one return task is active at any time,
\* and it is the one its coordinator is waiting for at its current index,
\* so the returns of lower indices have ended and those of higher indices
\* have not begun.
C15_SequentialOrder ==
    ~return_together_cb =>
        /\ Cardinality(ActiveReturns) <= 1
        /\ \A p \in ActiveReturns : ri[p[1]].pc = "ret" /\ ri[p[1]].idx = p[2]


\* ---------------------------------------------------------------- C16
\* C16: a Sequential return coordinator that ends before it has gone through
\* every index (it read the stop at its test) starts no further return task
\* and does not emit sequence_complete.
C16_EarlyTermination ==
    [][\A g \in Gens :
          (ri[g].pc = "check" /\ ri[g].idx < NumMotors /\ ri'[g].pc = "done")
              => (pend_seqc' = pend_seqc /\ rt' = rt)]_vars


\* ---------------------------------------------------------------- C17
\* C17: when the Sequential return coordinator passes an actuator whose
\* steps_moved is 0, it starts no return task for it and the step emits the
\* status event "already at start position" for that actuator.
C17_AtOriginReported ==
    [][\A g \in Gens :
          (/\ ri[g].pc = "check" /\ ri[g].idx < NumMotors
           /\ ri'[g].pc = "check" /\ ri'[g].idx = ri[g].idx + 1)
              => (rt' = rt /\ <<"at_origin", ri[g].idx, 0, 0>> \in status')]_vars


\* ---------------------------------------------------------------- C18
\* The step of a start whose GPIO block failed
GpioErrorStep == <<"gpio_error", 0, 0, 0>> \in status'

\* C18: a start whose chip open or pin claim fails spawns no task (no
\* generation is allocated, no movement task changes) and leaves the engine
\* not running: is_running_sequence False and the Start button enabled.
C18_FailedStartIdle ==
    [][GpioErrorStep =>
          (/\ gen' = gen /\ mt' = mt
           /\ ~is_running_sequence'
           /\ start_btn')]_vars


\* ---------------------------------------------------------------- C19
\* C19: a start whose GPIO block failed gives back what it had claimed
\* before it returns: the chip handle it opened is closed again and no pin
\* stays claimed through it, so the step leaves the chip as it found it.
C19_ClaimsReleased == [][GpioErrorStep => hw' = hw]_vars


\* ---------------------------------------------------------------- C20
\* A later repetition of the run in progress begins: a generation is
\* allocated while the Start button is disabled (a new run needs a click on
\* the enabled Start button).
NextRepetitionStep == gen >= 1 /\ gen' = gen + 1 /\ ~start_btn

\* C20: the configuration of a run is fixed at its start: a later
\* repetition moves through the angles the first repetition of the run was
\* given, whatever the spin boxes hold by then.
C20_ConfigFrozen ==
    [][NextRepetitionStep =>
          angles'[IF gen' = 0 THEN 1 ELSE gen'] = angles[IF gen = 0 THEN 1 ELSE gen]]_vars


\* ---------------------------------------------------------------- C21
\* An inter-repetition timer that was set before the last click on Start is
\* pending: on_sequence_complete sets a timer only after it has counted a
\* repetition, and only start_sequence puts current_rep back to 0.
StaleTimerPending == timers > 0 /\ current_rep = 0

\* C21: a repetition scheduled by a run that is no longer the current one
\* spawns no tasks: whenever its timer fires, run_single_sequence finds
\* is_running_sequence False and returns.
C21_StaleTimerInert == StaleTimerPending => ~is_running_sequence


\* ---------------------------------------------------------------- C22
\* C22: for every speed of the spin box range the half-step delay is
\* 60 / (STEPS_PER_REV * speed) / 2 = 30 / (STEPS_PER_REV * speed), it is
\* strictly positive, every lower speed of the range has a strictly longer
\* delay, and the return delay (speed times the return speed factor 0.5) is
\* twice the forward delay.
C22_HalfStepDelay ==
    calc.phase = "out" =>
        /\ FracEq(calc.fwd, <<30, STEPS_PER_REV(variant) * calc.speed>>)
        /\ calc.fwd[1] > 0 /\ calc.fwd[2] > 0
        /\ \A u \in MIN_SPEED .. MAX_SPEED :
              u < calc.speed => FracLess(calc.fwd, step_delay(variant, <<u, 1>>))
        /\ FracEq(calc.ret, <<2 * calc.fwd[1], calc.fwd[2]>>)

C22_Witness == calc.phase = "out" /\ calc.speed = MAX_SPEED


\* ---------------------------------------------------------------- C23
\* the cancellation token of actuator i is in its "stop requested" state
StopRequested(i) == IF variant = "main" THEN stop_event ELSE ~running_events[i]

\* C23: a return task that has a budget of two or more pulses, none of
\* them emitted yet, when the stop is requested, does not go on to emit its
\* whole budget and report "returned to start position": it emits at most
\* one more pulse and ends as stopped.
C23_ReturnCancelled ==
    [][\A g \in Gens : \A i \in Motors :
          (/\ rt[g][i].pc = "loop" /\ rt[g][i].k >= 2
           /\ StopRequested(i)
           /\ rt'[g][i].pc = "none")
              => <<"returned", i, 0, 0>> \notin status']_vars


\* ---------------------------------------------------------------- C24
\* C24: a run_motor task that is still in its start delay when the stop is
\* requested never enters the movement phase: its delay ends in the
\* terminated state and it emits no pulse.
C24_DelayCancelled ==
    [][\A g \in Gens : \A i \in Motors :
          (stops >= 1 /\ g <= stop_gen /\ mt[g][i].pc = "delay")
              => mt'[g][i].pc \in {"delay", "done"}]_vars


\* ---------------------------------------------------------------- C25
\* C25: a movement task enters its dwell only with its full step count
\* emitted, and a task of a stopped run that had pulses left when the stop
\* was requested never enters the dwell.
C25_DwellOnlyUncancelled ==
    [][\A g \in Gens : \A i \in Motors :
          (mt[g][i].pc # "dwell" /\ mt'[g][i].pc = "dwell")
              => /\ mt'[g][i].k = mt'[g][i].n
                 /\ ~(stops >= 1 /\ g <= stop_gen)]_vars


\* ---------------------------------------------------------------- C26
\* the Together return phase of generation g starts
TogetherReturnStarts(g) == fr[g] = "none" /\ fr'[g] = "join"
\* the Sequential coordinator of generation g passes actuator i
SequentialReturnPasses(g, i) ==
    /\ ri[g].pc = "check" /\ ri[g].idx = i
    /\ ri'[g] # ri[g] /\ ri'[g].pc # "done"

\* C26: in both return modes, each actuator that has moved (steps_moved[i]
\* > 0 when its return is launched) gets a return task that will emit
\* exactly steps_moved[i] pulses.
C26_ReturnBudget ==
    [][\A g \in Gens : \A i \in Motors :
          ((TogetherReturnStarts(g) \/ SequentialReturnPasses(g, i))
             /\ steps_moved[gen][i] > 0)
              => (rt'[g][i].pc = "loop" /\ rt'[g][i].k = steps_moved[gen][i])]_vars


TaskFails(g, i) == mt[g][i].pc = "loop" /\ mt'[g][i].pc = "failed"

\* C28: a failure inside one actuator's movement task ends that task only
\* (the other movement tasks of the repetition are left as they are), and the
\* return phase of the repetition has not begun when the task fails: it
\* begins only after the failed task has ended.
C28_FailureIsolated ==
    [][\A g \in Gens, i \in Motors : TaskFails(g, i) =>
          /\ \A j \in Motors \ {i} : mt'[g][j] = mt[g][j]
          /\ ~ReturnPhaseBegun(g)]_vars


\* ---------------------------------------------------------------- C29
\* the return task of actuator i of generation g runs in this step: its
\* events (return started, return progress, returned) are emitted
ReturnEventsEmitted(g, i) == rt[g][i].pc = "loop" /\ rt'[g][i].pc = "none"

\* the movement task of actuator i of generation g has events still to emit:
\* "started" when its delay ends in a run that goes on, or movement progress
\* and "reached target" while it pulses
MoveEventsToCome(g, i) ==
    \/ mt[g][i].pc = "delay" /\ (IF variant = "main" THEN ~stop_event ELSE is_running_sequence)
    \/ MovePulsing(g, i)

\* C29: within a repetition the events of one actuator are emitted, and so
\* reach the status sink, in phase order: when the return events of an
\* actuator are emitted, its movement task of that repetition has no event
\* left to emit.
C29_PhaseOrder ==
    [][\A g \in Gens, i \in Motors :
          ReturnEventsEmitted(g, i) => ~MoveEventsToCome(g, i)]_vars


\* ---------------------------------------------------------------- C30
\* C30 (step accounting bound): in every reachable state of main2.2.py and
\* main_add.py the counter steps_moved[i] of the current repetition is at
\* most the step count of actuator i's target, also after stop() followed
\* by start().
C30_StepBound ==
    gen >= 1 =>
        \A i \in Motors : steps_moved[gen][i] <= steps_to_target(variant, angles[gen][i])


\* ---------------------------------------------------------------- C31
\* C31 (repetition counter bound): in every reachable state
\* 0 <= current_rep <= total_reps.
C31_RepBound == 0 <= current_rep /\ current_rep <= total_reps


\* ---------------------------------------------------------------- C32
\* a movement task in its step loop or its dwell, or a return task, of
\* generation g is alive
TaskAlive(g) == \E i \in Motors : MotorAlive(mt, g, i) \/ ReturnAlive(g, i)

\* C32 (no task leakage past stop): when stop_motors has returned, no
\* movement, dwell or return task of the run it stopped is still alive.
C32_NoLeak ==
    [][StopStep => \A g \in Gens : g <= gen => ~TaskAlive(g)']_vars


\* ---------------------------------------------------------------- C33
\* C33 (no hardware write after release): on the Raspberry Pi no return
\* task writes to its step or direction pin through a chip handle that
\* stop_motors has closed.
C33_NoWriteAfterRelease ==
    [][\A g \in Gens, i \in Motors :
          ReturnEventsEmitted(g, i) => ~WritesReleased(rt[g][i])]_vars


\* ---------------------------------------------------------------- C34
\* C34: in main2.2.py on the Raspberry Pi, stop_motors releases the chip
\* handle that start_sequence acquired, whatever its value (0 included):
\* after the step the handle is closed.
C34_HandleReleased ==
    [][(StopStep /\ variant = "v22" /\ on_pi /\ gpio_handle # NoHandle)
          => hw'[gpio_handle] = Closed]_vars


\* ---------------------------------------------------------------- C35
\* the chip handles that are open
OpenHandles == {h \in Handles : hw[h] # Closed}

\* a step that opens the chip (gpiochip_open in the GPIO block of a start)
AcquireStep == \E h \in Handles : hw[h] = Closed /\ hw'[h] # Closed

\* C35 (hardware claim pairing): after a run (ended by Stop or completed),
\* the chip is never opened while the handle of an earlier start is still
\* open, so at most one chip handle is held at any time.
C35_ClaimPairing ==
    [][(AcquireStep /\ gen >= 1) => OpenHandles = {}]_vars


\* ---------------------------------------------------------------- C36
\* stop_motors has stopped the newest run and no start has followed
StoppedNoRestart == stops >= 1 /\ stop_gen = gen /\ ~is_running_sequence

\* C36 (a stopped run never reports success): once stop_motors has stopped
\* the run, no task emits sequence_complete for it, so current_rep is not
\* incremented and no finished event is produced for it.
C36_NoSuccessAfterStop ==
    [][StoppedNoRestart => pend_seqc' <= pend_seqc]_vars


\* ---------------------------------------------------------------- C37
\* C37: in main2.1.py, for every steps_moved >= 1 at the moment of Stop, the
\* ReturnThread ends after at most 50 pulses and leaves the actuator with
\* zero net displacement over movement plus return.
C37_ReturnsToStart ==
    calc.phase = "returned" => (calc.n <= FULL_SWING /\ calc.p = 0)

====
